---- MODULE Spec2Model ----
(***************************************************************************)
(* Model of the NetApp NFS volume driver's image cache, eviction pass,     *)
(* 7-mode asynchronous clone, post-clone validation and clone_image        *)
(* (cinder/volume/drivers/netapp/nfs.py).                                  *)
(*                                                                         *)
(* The specifications share the variables:                                 *)
(*   Spec           populate / clone-from-cache workers and the eviction   *)
(*                  pass running concurrently                              *)
(*   SpecPopulate   the workers alone                                      *)
(*   SpecEvict      the eviction pass alone, over a populated cache        *)
(*   SpecEvictFair  the eviction pass with its timer thread scheduled      *)
(*   SpecClone      NetAppDirect7modeNfsDriver._clone_volume               *)
(*   SpecDiscover   _discover_file_till_timeout on a clock                 *)
(*   SpecCloneImage clone_image with _post_img_clone and _resize_vol       *)
(*   SpecSelect     NFSDriver._select_share_for_volume (nfs_vzhelezniakov)  *)
(*   SpecFind       _find_old_cache_files over the times of the files       *)
(*   SpecLookup     _find_image_in_cache over a populated cache             *)
(*   SpecSetup      NFSDriver.do_setup (nfs_vzhelezniakov)                  *)
(***************************************************************************)
EXTENDS Integers, Sequences, FiniteSets, TLC

\* ------------------------------------------------------------------ bounds
NumWorkers == 2
NumImages == 2
NumShares == 2
MaxTimers == 2
MaxPolls == 3
MaxAppearAt == 50
MaxShareList == 3
MaxCapacity == 3
MaxVolSize == 3
MaxAge == 2

Workers == 1..NumWorkers
Images == 1..NumImages
Shares == 1..NumShares
Timers == 1..MaxTimers

None == "None"

\* self._mounted_shares, in list order
mounted_shares == [k \in 1..NumShares |-> k]

\* configuration.thres_avl_size_perc_start / _stop
thres_avl_size_perc_start == 20
thres_avl_size_perc_stop == 40

\* (total_size, total_avl) answers of _get_capacity_info
Capacities == {<<50, 10>>, <<50, 30>>, <<200, 41>>}

\* unique-bytes answers of file-usage-get
Sizes == {3, 10}

VARIABLES
    files,      \* files on the shares: <<share, name>>
    lock,       \* utils.synchronized: lock name -> holder
    wpc, wop,   \* request workers: position and arguments
    populate,   \* per cache file: populate requests made, clones issued,
                \* clones that raised, callers that returned with the file
    cleaning,   \* self.cleaning
    ignored,    \* the last _spawn_clean_cache_job returned without a pass
    cpc, cidx, clist, cbtf,  \* _clean_image_cache threads
    cdeficit, cdeleted,      \* history of the share being cleaned
    cfailed,    \* candidates of the share whose _delete_file returned False
    cskipped,   \* candidates find listed on the share that were left out
                \* because a file-usage query raised
    \* NetAppDirect7modeNfsDriver._clone_volume
    k7pc,       \* position in _clone_volume
    k7uuid,     \* vol_uuid of the handle _start_clone returned
    k7log,      \* answers of clone-list-status, in order
    k7err,      \* the NaApiError caught or raised: <<code, reason>>
    k7out,      \* how _clone_volume ended
    k7retry,    \* retry of _clear_clone
    k7clears,   \* calls of _clear_clone
    k7rpcs,     \* clone-clear requests sent
    \* _discover_file_till_timeout
    dpc, dnow, retry_seconds, dappear, dresult, dlastcheck,
    \* clone_image
    ipc,        \* position in clone_image, _post_img_clone and _resize_vol
    ishare,     \* the local share
    icloned,    \* the local cloned
    ihits,      \* cache_result entries not yet tried
    ifail,      \* what failed in the attempt on the current share
    ivol,       \* the volume file exists on the share
    iret,       \* the value returned
    iout,       \* how clone_image ended
    icalls,     \* the calls clone_image has made, in order
    \* NFSDriver._select_share_for_volume
    selpc,      \* position in _select_share_for_volume
    shares_config, \* available capacity of each share of the config file
    selsize,    \* the argument size
    selidx,     \* the line of the config file the loop is at
    best_share, \* the local best_share
    selout,     \* how _select_share_for_volume ended
    \* _find_old_cache_files
    fpc,        \* position in _find_old_cache_files
    fstat,      \* the img-cache files of the share: minutes since the last
                \* access and since the last modification
    fres,       \* the files the find command lists
    \* _find_image_in_cache
    lpc,        \* position in _find_image_in_cache
    limage,     \* image_id
    lidx,       \* index of the share the loop is at
    lresult,    \* result
    \* NFSDriver.do_setup
    spc,        \* position in do_setup
    saccess,    \* what os.access answered for the mount base
    slines,     \* the lines of the shares file not yet handled
    smounted,   \* the shares mounted by this call
    smade,      \* the mount directories made by this call
    sout        \* how do_setup ended

cacheVars == <<files, lock, wpc, wop, populate>>
cleanVars == <<cleaning, ignored, cpc, cidx, clist, cbtf, cdeficit, cdeleted,
              cfailed, cskipped>>

cloneVars == <<k7pc, k7uuid, k7log, k7err, k7out, k7retry, k7clears, k7rpcs>>
discVars == <<dpc, dnow, retry_seconds, dappear, dresult, dlastcheck>>
imgVars == <<ipc, ishare, icloned, ihits, ifail, ivol, iret, iout, icalls>>
selVars == <<selpc, shares_config, selsize, selidx, best_share, selout>>
findVars == <<fpc, fstat, fres>>
lookupVars == <<lpc, limage, lidx, lresult>>
setupVars == <<spc, saccess, slines, smounted, smade, sout>>
seqVars == <<cloneVars, discVars, imgVars, selVars, findVars, lookupVars, setupVars>>

vars == <<cacheVars, cleanVars, seqVars>>

\* ------------------------------------------------------------ file names
\* 'img-cache-%s' % image_id
cache_file_name(image_id) == <<"img-cache", image_id>>

\* volume['name'] of the volume worker w is creating
volume_name(w) == <<"volume", w>>

CacheFiles == {<<s, cache_file_name(i)>> : s \in Shares, i \in Images}
LockNames == {cache_file_name(i) : i \in Images}

\* os.path.exists('%s/%s' % (dir, name))
path_exists(share, name) == <<share, name>> \in files

\* ------------------------------------------------------- decimal strings
\* get_child_content('unique-bytes') is the decimal text of the number
RECURSIVE DecStr(_)
DecStr(n) == IF n < 10 THEN <<n>> ELSE Append(DecStr(n \div 10), n % 10)

\* int(f[1])
RECURSIVE StrInt(_)
StrInt(s) == IF Len(s) = 0 THEN 0
             ELSE 10 * StrInt(SubSeq(s, 1, Len(s) - 1)) + s[Len(s)]

\* Python str comparison a < b
StrLess(a, b) ==
    \E k \in 1..Len(b) :
        /\ \A j \in 1..(k - 1) : j <= Len(a) /\ a[j] = b[j]
        /\ (k > Len(a) \/ a[k] < b[k])

\* position at which e goes into the descending list s so that equal keys
\* keep their input order
InsertPos(e, s) == Cardinality({k \in 1..Len(s) : ~StrLess(s[k][2], e[2])})

InsertDesc(e, s) ==
    LET p == InsertPos(e, s)
    IN SubSeq(s, 1, p) \o <<e>> \o SubSeq(s, p + 1, Len(s))

\* sorted(file_list, key=lambda x: x[1], reverse=True)
RECURSIVE SortedDesc(_)
SortedDesc(s) == IF Len(s) = 0 THEN <<>>
                 ELSE InsertDesc(s[Len(s)], SortedDesc(SubSeq(s, 1, Len(s) - 1)))

\* ---------------------------------------------------------------- locks
\* a lock is held by a worker <<"w", w>> or a pass <<"c", c>>, or by none
Free == <<"free", 0>>

CanAcquire_NoLock(name) == TRUE

\* @utils.synchronized(name, external=True): entry blocks while held
CanAcquire(name) == lock[name] = Free

lock_after_HeldOnRaise(holder, ok) == IF ok THEN Free ELSE holder

\* @utils.synchronized(name, external=True): the lock is released when the
\* decorated function returns and when it raises
lock_after(holder, ok) == Free

\* ------------------------------------------------- _do_clone_rel_img_cache
IdleOp == [kind |-> "none", image |-> 1, share |-> 1]

\* src argument: the volume when registering, the cache file when cloning
\* a volume from the cache
op_src(w) == IF wop[w].kind = "register" THEN volume_name(w)
             ELSE cache_file_name(wop[w].image)

\* dst argument
op_dst(w) == IF wop[w].kind = "register" THEN cache_file_name(wop[w].image)
             ELSE volume_name(w)

\* cache_file argument, the name of the lock
op_cache_file(w) == cache_file_name(wop[w].image)

NeedsClone_Always(share, dst) == TRUE

\* if not os.path.exists(file_path)
NeedsClone(share, dst) == ~path_exists(share, dst)

\* requests are numbered in the order they arrive
NextRequest(w) == wpc[w] = "idle" /\ \A v \in Workers : v < w => wpc[v] # "idle"

\* the populate record of the cache file the worker is cloning into
Counted(w, field, n) ==
    IF wop[w].kind = "register"
    THEN [populate EXCEPT ![<<wop[w].share, op_dst(w)>>][field] = @ + n]
    ELSE populate

\* _register_image_in_cache calls _do_clone_rel_img_cache(volume name,
\* cache file, share, cache file)
register_image_in_cache(w, i, s) ==
    /\ NextRequest(w)
    /\ wpc' = [wpc EXCEPT ![w] = "wait"]
    /\ wop' = [wop EXCEPT ![w] = [kind |-> "register", image |-> i, share |-> s]]
    /\ populate' = [populate EXCEPT ![<<s, cache_file_name(i)>>].requests = @ + 1]
    /\ UNCHANGED <<files, lock, cleanVars, seqVars>>

\* clone_image: _find_image_in_cache found the cache file on share s, then
\* _do_clone_rel_img_cache(cache file, volume name, share, cache file)
clone_from_cache(w, i, s) ==
    /\ NextRequest(w)
    /\ path_exists(s, cache_file_name(i))
    /\ wpc' = [wpc EXCEPT ![w] = "wait"]
    /\ wop' = [wop EXCEPT ![w] = [kind |-> "fromcache", image |-> i, share |-> s]]
    /\ UNCHANGED <<files, lock, populate, cleanVars, seqVars>>

\* _do_clone enters under the lock and tests the destination
do_clone_enter(w) ==
    /\ wpc[w] = "wait"
    /\ CanAcquire(op_cache_file(w))
    /\ IF NeedsClone(wop[w].share, op_dst(w))
       THEN /\ lock' = [lock EXCEPT ![op_cache_file(w)] = <<"w", w>>]
            /\ wpc' = [wpc EXCEPT ![w] = "cloning"]
            /\ populate' = Counted(w, "clones", 1)
            /\ UNCHANGED wop
       ELSE /\ wpc' = [wpc EXCEPT ![w] = "done"]
            /\ wop' = [wop EXCEPT ![w] = IdleOp]
            /\ populate' = Counted(w, "found", 1)
            /\ UNCHANGED lock
    /\ UNCHANGED <<files, cleanVars, seqVars>>

\* self._clone_volume(src, dst, volume_id=None, share=share) returns or
\* raises; the lock is released either way.  The backend cannot clone a
\* cache file that is gone.
do_clone_return(w, ok) ==
    /\ wpc[w] = "cloning"
    /\ (ok /\ wop[w].kind = "fromcache") => path_exists(wop[w].share, op_src(w))
    /\ files' = IF ok THEN files \cup {<<wop[w].share, op_dst(w)>>} ELSE files
    /\ lock' = [lock EXCEPT ![op_cache_file(w)] = lock_after(@, ok)]
    /\ wpc' = [wpc EXCEPT ![w] = "done"]
    /\ wop' = [wop EXCEPT ![w] = IdleOp]
    /\ populate' = IF ok THEN Counted(w, "found", 1) ELSE Counted(w, "raised", 1)
    /\ UNCHANGED <<cleanVars, seqVars>>

vol_path_CacheFile(share, w) == <<share, cache_file_name(1)>>

\* vol_path = '%s/%s' % (dir_path, volume['name'])
vol_path(share, w) == <<share, volume_name(w)>>

\* the volume file of a finished request is removed: the failure clauses
\* of _resize_vol (if delete_on_fail and os.path.exists(vol_path):
\* os.unlink(vol_path)), and likewise the unlink of a failed conversion
\* and the rm of a volume or snapshot deletion
unlink_vol_path(w, s) ==
    /\ wpc[w] = "done"
    /\ path_exists(s, volume_name(w))
    /\ files' = files \ {vol_path(s, w)}
    /\ UNCHANGED <<lock, wpc, wop, populate, cleanVars, seqVars>>

\* ------------------------------------------------------------- eviction
IsCleaning_Never == FALSE

\* getattr(self, 'cleaning', None)
IsCleaning == cleaning

clean_cache_held_DuringPass == \E c \in Timers : cpc[c] # "off"

\* @utils.synchronized('clean_cache') wraps _spawn_clean_cache_job alone:
\* t.start() returns at once and the lock is released before the timer
\* thread runs _clean_image_cache, so no pass holds it
clean_cache_held == FALSE

\* _spawn_clean_cache_job, atomic under @utils.synchronized('clean_cache')
spawn_clean_cache_job ==
    /\ ~clean_cache_held
    /\ IF IsCleaning
       THEN /\ ignored' = TRUE
            /\ UNCHANGED <<cleaning, cpc, cidx>>
       ELSE /\ \E c \in Timers :
                 /\ cpc[c] = "off"
                 /\ \A d \in Timers : d < c => cpc[d] # "off"
                 /\ cpc' = [cpc EXCEPT ![c] = "run"]
                 /\ cidx' = [cidx EXCEPT ![c] = 1]
            /\ cleaning' = TRUE
            /\ ignored' = FALSE
    /\ UNCHANGED <<cacheVars, clist, cbtf, cdeficit, cdeleted, cfailed, cskipped,
                   seqVars>>

\* int((total_avl / total_size) * 100)
avl_percent(total_size, total_avl) == (total_avl * 100) \div total_size

\* int((thres_size_perc_stop * total_size) / 100)
threshold_size(total_size) == (thres_avl_size_perc_stop * total_size) \div 100

\* int(threshold_size - total_avl)
bytes_to_free(total_size, total_avl) == threshold_size(total_size) - total_avl

\* the cache files of the share that exist, any of which find can report
\* as not accessed for expiry_thres_minutes
cache_files_on(share) ==
    {i \in Images : path_exists(share, cache_file_name(i))}

\* the orders in which find can list a set of names
Orders(S) == {q \in [1..Cardinality(S) -> S] :
                 \A a, b \in 1..Cardinality(S) : a # b => q[a] # q[b]}

\* the share loop moves on
next_share(c) ==
    /\ cidx' = [cidx EXCEPT ![c] = @ + 1]
    /\ cpc' = [cpc EXCEPT ![c] = "run"]

\* nothing of the share has been attempted
no_deletion(c) ==
    /\ clist' = [clist EXCEPT ![c] = <<>>]
    /\ cbtf' = [cbtf EXCEPT ![c] = 0]
    /\ cdeficit' = [cdeficit EXCEPT ![c] = 0]
    /\ cdeleted' = [cdeleted EXCEPT ![c] = <<>>]
    /\ cfailed' = [cfailed EXCEPT ![c] = <<>>]

\* the share is left alone: an exception of the probe or of find is
\* logged, or the available percentage is above the start threshold, or
\* there is nothing to delete
skip_share(c) ==
    /\ next_share(c)
    /\ no_deletion(c)
    /\ cskipped' = [cskipped EXCEPT ![c] = 0]

usage_failed_Aborts(c, n) ==
    /\ cpc' = [cpc EXCEPT ![c] = "off"]
    /\ cidx' = [cidx EXCEPT ![c] = 1]
    /\ no_deletion(c)
    /\ cskipped' = [cskipped EXCEPT ![c] = 0]

\* _get_cluster_file_usage raises for one of the n files find listed: the
\* exception leaves _shortlist_del_eligible_files and
\* _find_old_cache_files and is logged by the except clause of the share
usage_failed(c, n) ==
    /\ next_share(c)
    /\ no_deletion(c)
    /\ cskipped' = [cskipped EXCEPT ![c] = n - 1]

\* one iteration of the share loop of _clean_image_cache up to the call of
\* _delete_files_till_bytes_free, whose entry test and sort are included
clean_share(c) ==
    /\ cpc[c] = "run"
    /\ cidx[c] <= NumShares
    /\ LET share == mounted_shares[cidx[c]]
       IN \/ skip_share(c)
          \/ \E cap \in Capacities :
               /\ avl_percent(cap[1], cap[2]) > thres_avl_size_perc_start
               /\ skip_share(c)
          \/ \E cap \in Capacities :
               /\ avl_percent(cap[1], cap[2]) <= thres_avl_size_perc_start
               /\ \E old \in SUBSET cache_files_on(share) :
                    \/ old # {} /\ usage_failed(c, Cardinality(old))
                    \/ \E q \in Orders(old) :
                         \E sz \in [old -> Sizes] :
                           LET eligible == [k \in 1..Cardinality(old) |->
                                               <<cache_file_name(q[k]), DecStr(sz[q[k]])>>]
                               btf == bytes_to_free(cap[1], cap[2])
                           IN IF Len(eligible) > 0 /\ btf > 0
                              THEN /\ clist' = [clist EXCEPT ![c] = SortedDesc(eligible)]
                                   /\ cbtf' = [cbtf EXCEPT ![c] = btf]
                                   /\ cdeficit' = [cdeficit EXCEPT ![c] = btf]
                                   /\ cdeleted' = [cdeleted EXCEPT ![c] = <<>>]
                                   /\ cfailed' = [cfailed EXCEPT ![c] = <<>>]
                                   /\ cskipped' = [cskipped EXCEPT ![c] = 0]
                                   /\ cpc' = [cpc EXCEPT ![c] = "del"]
                                   /\ UNCHANGED cidx
                              ELSE skip_share(c)
    /\ UNCHANGED <<cacheVars, cleaning, ignored, seqVars>>

\* _do_delete enters under the lock named by the file
do_delete_enter(c) ==
    /\ cpc[c] = "del"
    /\ CanAcquire(clist[c][1][1])
    /\ lock' = [lock EXCEPT ![clist[c][1][1]] = <<"c", c>>]
    /\ cpc' = [cpc EXCEPT ![c] = "deleting"]
    /\ UNCHANGED <<files, wpc, wop, populate, cleaning, ignored, cidx, clist,
                   cbtf, cdeficit, cdeleted, cfailed, cskipped, seqVars>>

DeficitMet_AfterOne(left) == TRUE

DeficitMet_Strict(left) == left < 0

\* if bytes_to_free <= 0: return
DeficitMet(left) == left <= 0

\* _delete_file returns True or False, the lock is released, and the loop
\* of _delete_files_till_bytes_free goes on or returns; clist keeps the
\* candidates that have not been attempted
freed_by_Always(ok, f) == StrInt(f[2])

\* if _do_delete(): bytes_to_free = bytes_to_free - int(f[1])
freed_by(ok, f) == IF ok THEN StrInt(f[2]) ELSE 0

do_delete_return(c, ok) ==
    /\ cpc[c] = "deleting"
    /\ LET share == mounted_shares[cidx[c]]
           f == clist[c][1]
           left == cbtf[c] - freed_by(ok, f)
       IN /\ lock' = [lock EXCEPT ![f[1]] = lock_after(@, ok)]
          /\ IF ok
             THEN /\ files' = files \ {<<share, f[1]>>}
                  /\ cbtf' = [cbtf EXCEPT ![c] = left]
                  /\ cdeleted' = [cdeleted EXCEPT ![c] = Append(@, f)]
                  /\ UNCHANGED cfailed
             ELSE /\ cfailed' = [cfailed EXCEPT ![c] = Append(@, f)]
                  /\ cbtf' = [cbtf EXCEPT ![c] = left]
                  /\ UNCHANGED <<files, cdeleted>>
          /\ clist' = [clist EXCEPT ![c] = Tail(@)]
          /\ IF (ok /\ DeficitMet(left)) \/ Len(clist[c]) = 1
             THEN next_share(c)
             ELSE /\ cpc' = [cpc EXCEPT ![c] = "del"]
                  /\ UNCHANGED cidx
    /\ UNCHANGED <<wpc, wop, populate, cleaning, ignored, cdeficit, cskipped, seqVars>>

\* finally: self.cleaning = False
clean_image_cache_done(c) ==
    /\ cpc[c] = "run"
    /\ cidx[c] > NumShares
    /\ cpc' = [cpc EXCEPT ![c] = "off"]
    /\ cleaning' = FALSE
    /\ cidx' = [cidx EXCEPT ![c] = 1]
    /\ cbtf' = [cbtf EXCEPT ![c] = 0]
    /\ cdeficit' = [cdeficit EXCEPT ![c] = 0]
    /\ cdeleted' = [cdeleted EXCEPT ![c] = <<>>]
    /\ clist' = [clist EXCEPT ![c] = <<>>]
    /\ cfailed' = [cfailed EXCEPT ![c] = <<>>]
    /\ cskipped' = [cskipped EXCEPT ![c] = 0]
    /\ UNCHANGED <<cacheVars, ignored, seqVars>>

\* ------------------------------------------- 7-mode _clone_volume
Codes == {"X", "Y", "UnknownCloneId"}
Reasons == {"r1", "r2"}

\* what clone-list-status can answer: no entry, an entry with a
\* clone-state, or an API error
StatusAnswers ==
    {[kind |-> "empty"], [kind |-> "running"], [kind |-> "completed"]}
    \cup {[kind |-> "failed", code |-> c, reason |-> r] : c \in Codes, r \in Reasons}
    \cup {[kind |-> "apierror", code |-> c, reason |-> r] : c \in Codes, r \in Reasons}

\* _clone_volume resolves the export path, which can raise NotFound
clone_volume_begin(found) ==
    /\ k7pc = "idle"
    /\ IF found
       THEN /\ k7pc' = "start"
            /\ UNCHANGED <<k7err, k7out>>
       ELSE /\ k7pc' = "done"
            /\ k7err' = <<"NotFound", "r1">>
            /\ k7out' = "raised"
    /\ UNCHANGED <<k7uuid, k7log, k7retry, k7clears, k7rpcs>>
    /\ UNCHANGED <<cacheVars, cleanVars, discVars, imgVars, selVars, findVars, lookupVars, setupVars>>

\* _start_clone: clone-start raises, or returns (clone-op-id, volume-uuid);
\* with no volume-uuid _clone_volume returns at once
start_clone(ok, uuid) ==
    /\ k7pc = "start"
    /\ IF ~ok
       THEN /\ k7pc' = "done"
            /\ k7err' = <<"X", "r1">>
            /\ k7out' = "raised"
            /\ UNCHANGED k7uuid
       ELSE /\ k7uuid' = uuid
            /\ IF uuid # None
               THEN k7pc' = "poll" /\ UNCHANGED k7out
               ELSE k7pc' = "done" /\ k7out' = "returned"
            /\ UNCHANGED k7err
    /\ UNCHANGED <<k7log, k7retry, k7clears, k7rpcs>>
    /\ UNCHANGED <<cacheVars, cleanVars, discVars, imgVars, selVars, findVars, lookupVars, setupVars>>

Runnings(log) == Cardinality({j \in 1..Len(log) : log[j].kind = "running"})

status_effect_RunningGivesUp(a) ==
    CASE a.kind = "empty" -> "raise_unknown"
      [] a.kind = "completed" -> "finish"
      [] a.kind = "failed" -> "raise"
      [] a.kind = "apierror" -> "raise"
      [] OTHER -> "finish"

status_effect_FailedIgnored(a) ==
    CASE a.kind = "empty" -> "raise_unknown"
      [] a.kind = "completed" -> "finish"
      [] a.kind = "failed" -> "finish"
      [] a.kind = "apierror" -> "raise"
      [] OTHER -> "sleep"

\* the branch of the loop body of _wait_for_clone_finish an answer takes
status_effect(a) ==
    CASE a.kind = "empty" -> "raise_unknown"
      [] a.kind = "completed" -> "finish"
      [] a.kind = "failed" -> "raise"
      [] a.kind = "apierror" -> "raise"
      [] OTHER -> "sleep"

ShouldClear_Never(code) == FALSE

ShouldClear_Always(code) == TRUE

\* if e.code != 'UnknownCloneId'
ShouldClear(code) == code # "UnknownCloneId"

\* except NaApiError as e: in _clone_volume
clone_failed(e) ==
    /\ k7err' = e
    /\ IF ShouldClear(e[1])
       THEN /\ k7pc' = "clear"
            /\ k7retry' = 3
            /\ k7clears' = k7clears + 1
            /\ UNCHANGED k7out
       ELSE /\ k7pc' = "done"
            /\ k7out' = "raised"
            /\ UNCHANGED <<k7retry, k7clears>>

\* one pass of the loop of _wait_for_clone_finish
wait_for_clone_finish(a) ==
    /\ k7pc = "poll"
    /\ a.kind = "running" => Runnings(k7log) < MaxPolls
    /\ k7log' = Append(k7log, a)
    /\ CASE status_effect(a) = "sleep" ->
              UNCHANGED <<k7pc, k7err, k7out, k7retry, k7clears>>
         [] status_effect(a) = "finish" ->
              /\ k7pc' = "done"
              /\ k7out' = "returned"
              /\ UNCHANGED <<k7err, k7retry, k7clears>>
         [] status_effect(a) = "raise" ->
              clone_failed(<<a.code, a.reason>>)
         [] status_effect(a) = "raise_unknown" ->
              clone_failed(<<"UnknownCloneId", "r1">>)
    /\ UNCHANGED <<k7uuid, k7rpcs>>
    /\ UNCHANGED <<cacheVars, cleanVars, discVars, imgVars, selVars, findVars, lookupVars, setupVars>>

ClearEnds_RetriesAfterSuccess(ok, retry) == retry = 1

\* break after a clone-clear that succeeded; while retry: ends after the
\* decrement that brings retry to 0
ClearEnds(ok, retry) == ok \/ retry = 1

\* one pass of the loop of _clear_clone, then raise e when the loop ends
clear_clone(ok) ==
    /\ k7pc = "clear"
    /\ k7retry > 0
    /\ k7rpcs' = k7rpcs + 1
    /\ k7retry' = IF ok THEN k7retry ELSE k7retry - 1
    /\ IF ClearEnds(ok, k7retry)
       THEN k7pc' = "done" /\ k7out' = "raised"
       ELSE UNCHANGED <<k7pc, k7out>>
    /\ UNCHANGED <<k7uuid, k7log, k7err, k7clears>>
    /\ UNCHANGED <<cacheVars, cleanVars, discVars, imgVars, selVars, findVars, lookupVars, setupVars>>

CloneIdle ==
    /\ k7pc = "idle"
    /\ k7uuid = None
    /\ k7log = <<>>
    /\ k7err = <<None, None>>
    /\ k7out = "none"
    /\ k7retry = 0
    /\ k7clears = 0
    /\ k7rpcs = 0

\* ------------------------------------------ _discover_file_till_timeout
\* retry_seconds = 45
retry_seconds_start == 45

\* sleep_interval = 2
sleep_interval == 2

Never == -1

file_visible_Always == TRUE

\* os.path.exists(path) at dnow seconds after the call began
file_visible == dappear # Never /\ dappear <= dnow

\* the call begins; the file is there from second a on, or never
discover_begin(a) ==
    /\ dpc = "idle"
    /\ dpc' = "check"
    /\ dappear' = a
    /\ dnow' = 0
    /\ retry_seconds' = retry_seconds_start
    /\ UNCHANGED <<dresult, dlastcheck>>
    /\ UNCHANGED <<cacheVars, cleanVars, cloneVars, imgVars, selVars, findVars, lookupVars, setupVars>>

\* if os.path.exists(path): return True / elif retry_seconds <= 0: return False
discover_check ==
    /\ dpc = "check"
    /\ dlastcheck' = dnow
    /\ IF file_visible
       THEN dpc' = "done" /\ dresult' = TRUE
       ELSE IF retry_seconds <= 0
            THEN dpc' = "done" /\ dresult' = FALSE
            ELSE dpc' = "sleep" /\ UNCHANGED dresult
    /\ UNCHANGED <<dnow, retry_seconds, dappear>>
    /\ UNCHANGED <<cacheVars, cleanVars, cloneVars, imgVars, selVars, findVars, lookupVars, setupVars>>

\* time.sleep(sleep_interval); retry_seconds = retry_seconds - sleep_interval
discover_sleep ==
    /\ dpc = "sleep"
    /\ dnow' = dnow + sleep_interval
    /\ retry_seconds' = retry_seconds - sleep_interval
    /\ dpc' = "check"
    /\ UNCHANGED <<dappear, dresult, dlastcheck>>
    /\ UNCHANGED <<cacheVars, cleanVars, cloneVars, imgVars, selVars, findVars, lookupVars, setupVars>>

DiscoverIdle ==
    /\ dpc = "idle"
    /\ dnow = 0
    /\ retry_seconds = retry_seconds_start
    /\ dappear = Never
    /\ dresult = None
    /\ dlastcheck = 0

\* ------------------------------------------------------------ clone_image
\* share = None
NoShare == 0

\* the shares of a set in the order of self._mounted_shares
RECURSIVE InListOrder(_)
InListOrder(S) ==
    IF S = {} THEN <<>>
    ELSE LET m == CHOOSE x \in S : \A y \in S : x <= y
         IN <<m>> \o InListOrder(S \ {m})

return_share_Kept(share, cloned) == share

\* share = share if cloned else None
return_share(share, cloned) == IF cloned THEN share ELSE NoShare

\* the exception reaches except Exception of clone_image
img_raise(kind) ==
    /\ ifail' = kind
    /\ ipc' = "except"

\* cloned = False, share = None, then _find_image_in_cache raises or
\* returns the shares that hold the cache file
clone_image_begin(found, ok) ==
    /\ ipc = "idle"
    /\ icloned' = FALSE
    /\ ishare' = NoShare
    /\ IF ~ok
       THEN img_raise("lookup") /\ UNCHANGED ihits
       ELSE /\ ihits' = InListOrder(found)
            /\ ipc' = IF found # {} THEN "cache_next" ELSE "direct"
            /\ UNCHANGED ifail
    /\ UNCHANGED <<ivol, iret, iout>>
    /\ icalls' = Append(icalls, "find_image_in_cache")
    /\ UNCHANGED <<cacheVars, cleanVars, cloneVars, discVars, selVars, findVars, lookupVars, setupVars>>

\* for res in cache_result: the share is eligible, is not, or
\* _is_share_eligible raises
cache_next(e) ==
    /\ ipc = "cache_next"
    /\ IF ihits = <<>>
       THEN /\ ipc' = "finally"
            /\ UNCHANGED <<ishare, ihits, ifail>>
       ELSE /\ ishare' = Head(ihits)
            /\ ihits' = Tail(ihits)
            /\ CASE e = "yes" -> ipc' = "cache_clone" /\ ifail' = "none"
                 [] e = "no" -> ipc' = "cache_next" /\ ifail' = "none"
                 [] OTHER -> img_raise("eligible")
    /\ UNCHANGED <<icloned, ivol, iret, iout>>
    /\ icalls' = IF ihits = <<>> THEN icalls ELSE Append(icalls, "is_share_eligible")
    /\ UNCHANGED <<cacheVars, cleanVars, cloneVars, discVars, selVars, findVars, lookupVars, setupVars>>

\* _do_clone_rel_img_cache(file_name, volume['name'], share, file_name)
\* returns, or raises into the bare except of the loop
cache_clone(ok) ==
    /\ ipc = "cache_clone"
    /\ IF ok
       THEN ipc' = "post" /\ ivol' = TRUE /\ UNCHANGED ifail
       ELSE ipc' = "cache_next" /\ ifail' = "clone" /\ UNCHANGED ivol
    /\ UNCHANGED <<ishare, icloned, ihits, iret, iout>>
    /\ icalls' = Append(icalls, "do_clone_rel_img_cache")
    /\ UNCHANGED <<cacheVars, cleanVars, cloneVars, discVars, selVars, findVars, lookupVars, setupVars>>

\* share = self._is_cloneable_share(image_location), then the test of
\* share and _is_share_eligible
direct_begin(sh, e) ==
    /\ ipc = "direct"
    /\ ishare' = sh
    /\ IF sh = NoShare \/ e = "no"
       THEN ipc' = "finally" /\ UNCHANGED ifail
       ELSE IF e = "yes"
            THEN ipc' = "direct_info" /\ UNCHANGED ifail
            ELSE img_raise("eligible")
    /\ UNCHANGED <<icloned, ihits, ivol, iret, iout>>
    /\ icalls' = IF sh = NoShare THEN Append(icalls, "is_cloneable_share")
                ELSE icalls \o <<"is_cloneable_share", "is_share_eligible">>
    /\ UNCHANGED <<cacheVars, cleanVars, cloneVars, discVars, selVars, findVars, lookupVars, setupVars>>

\* img_info = image_utils.qemu_img_info(img_path)
direct_info(fmt) ==
    /\ ipc = "direct_info"
    /\ CASE fmt = "raw" -> ipc' = "direct_clone" /\ UNCHANGED ifail
         [] fmt = "other" -> ipc' = "direct_convert" /\ UNCHANGED ifail
         [] OTHER -> img_raise("info")
    /\ UNCHANGED <<ishare, icloned, ihits, ivol, iret, iout>>
    /\ icalls' = Append(icalls, "qemu_img_info")
    /\ UNCHANGED <<cacheVars, cleanVars, cloneVars, discVars, selVars, findVars, lookupVars, setupVars>>

\* self._clone_volume(img_file, volume['name'], volume_id=None, share=share)
direct_clone(ok) ==
    /\ ipc = "direct_clone"
    /\ IF ok
       THEN ipc' = "post" /\ icloned' = TRUE /\ ivol' = TRUE /\ UNCHANGED ifail
       ELSE img_raise("clone") /\ UNCHANGED <<icloned, ivol>>
    /\ UNCHANGED <<ishare, ihits, iret, iout>>
    /\ icalls' = Append(icalls, "clone_volume")
    /\ UNCHANGED <<cacheVars, cleanVars, cloneVars, discVars, selVars, findVars, lookupVars, setupVars>>

register_raises_Propagates(clone_ok) == ~clone_ok

\* _register_image_in_cache: try: self._do_clone_rel_img_cache(...)
\* except Exception as e: LOG.warn(...)
register_raises(clone_ok) == FALSE

\* convert_image, qemu_img_info(dst), then unlink, or cloned = True and
\* _register_image_in_cache, whose clone into the cache file returns or
\* raises
direct_convert(r) ==
    /\ ipc = "direct_convert"
    /\ CASE r \in {"raw", "raw_warm_failed"} ->
              /\ icloned' = TRUE
              /\ ivol' = TRUE
              /\ IF register_raises(r = "raw")
                 THEN img_raise("register")
                 ELSE ipc' = "post" /\ UNCHANGED ifail
         [] r = "notraw" ->
              ipc' = "finally" /\ icloned' = FALSE /\ ivol' = FALSE /\ ifail' = "format"
         [] OTHER -> img_raise("convert") /\ UNCHANGED <<icloned, ivol>>
    /\ UNCHANGED <<ishare, ihits, iret, iout>>
    /\ icalls' = CASE r = "raw" -> icalls \o <<"convert_image", "register_image_in_cache">>
                  [] r = "raw_warm_failed" ->
                       icalls \o <<"convert_image", "register_image_in_cache", "LOG.warn">>
                  [] r = "notraw" -> icalls \o <<"convert_image", "unlink">>
                  [] OTHER -> Append(icalls, "convert_image")
    /\ UNCHANGED <<cacheVars, cleanVars, cloneVars, discVars, selVars, findVars, lookupVars, setupVars>>

\* _post_img_clone returns op_result and clone_image assigns it to cloned
post_return(op_result) ==
    /\ icloned' = op_result
    /\ ipc' = "finally"

DiscoverGoesOn_Always(found) == TRUE

\* if self._discover_file_till_timeout(vol_path): the permissions and the
\* resize are inside the if
DiscoverGoesOn(found) == found

\* if self._discover_file_till_timeout(vol_path)
post_discover(found) ==
    /\ ipc = "post"
    /\ ifail' = IF found THEN ifail ELSE "discover"
    /\ IF DiscoverGoesOn(found)
       THEN ipc' = "perms" /\ UNCHANGED icloned
       ELSE post_return(FALSE)
    /\ UNCHANGED <<ishare, ihits, ivol, iret, iout>>
    /\ icalls' = Append(icalls, "discover_file_till_timeout")
    /\ UNCHANGED <<cacheVars, cleanVars, cloneVars, discVars, selVars, findVars, lookupVars, setupVars>>

\* self._set_rw_permissions_for_all(vol_path)
post_perms(ok) ==
    /\ ipc = "perms"
    /\ IF ok
       THEN ipc' = "resize" /\ UNCHANGED <<icloned, ifail>>
       ELSE post_return(FALSE) /\ ifail' = "perms"
    /\ UNCHANGED <<ishare, ihits, ivol, iret, iout>>
    /\ icalls' = Append(icalls, "set_rw_permissions_for_all")
    /\ UNCHANGED <<cacheVars, cleanVars, cloneVars, discVars, selVars, findVars, lookupVars, setupVars>>

resize_failed_KeepsFile ==
    /\ ivol' = ivol
    /\ ifail' = "resize"
    /\ post_return(FALSE)

\* the except clauses of _resize_vol: unlink when delete_on_fail and the
\* file exists, return False
resize_failed ==
    /\ ivol' = FALSE
    /\ ifail' = "resize"
    /\ post_return(FALSE)

\* the first _is_file_size_equal of _resize_vol
resize_check(r) ==
    /\ ipc = "resize"
    /\ CASE r = "equal" -> post_return(TRUE) /\ UNCHANGED <<ivol, ifail>>
         [] r = "unequal" -> ipc' = "resize_image" /\ UNCHANGED <<icloned, ivol, ifail>>
         [] OTHER -> resize_failed
    /\ UNCHANGED <<ishare, ihits, iret, iout>>
    /\ icalls' = IF r \in {"equal", "unequal"} THEN Append(icalls, "is_file_size_equal")
                ELSE icalls \o <<"is_file_size_equal", "unlink">>
    /\ UNCHANGED <<cacheVars, cleanVars, cloneVars, discVars, selVars, findVars, lookupVars, setupVars>>

\* image_utils.resize_image, then the second _is_file_size_equal
resize_image(r) ==
    /\ ipc = "resize_image"
    /\ CASE r = "equal" -> post_return(TRUE) /\ UNCHANGED <<ivol, ifail>>
         [] OTHER -> resize_failed
    /\ UNCHANGED <<ishare, ihits, iret, iout>>
    /\ icalls' = CASE r = "equal" -> icalls \o <<"resize_image", "is_file_size_equal">>
                   [] r = "raise_resize" -> icalls \o <<"resize_image", "unlink">>
                   [] OTHER -> icalls \o <<"resize_image", "is_file_size_equal", "unlink">>
    /\ UNCHANGED <<cacheVars, cleanVars, cloneVars, discVars, selVars, findVars, lookupVars, setupVars>>

\* except Exception as e: LOG.warn
img_except ==
    /\ ipc = "except"
    /\ ipc' = "finally"
    /\ UNCHANGED <<ishare, icloned, ihits, ifail, ivol, iret, iout>>
    /\ icalls' = icalls
    /\ UNCHANGED <<cacheVars, cleanVars, cloneVars, discVars, selVars, findVars, lookupVars, setupVars>>

\* finally: share = share if cloned else None; return
img_finally ==
    /\ ipc = "finally"
    /\ ipc' = "done"
    /\ ishare' = return_share(ishare, icloned)
    /\ iret' = [provider_location |-> return_share(ishare, icloned),
                cloned |-> icloned]
    /\ iout' = "returned"
    /\ UNCHANGED <<icloned, ihits, ifail, ivol>>
    /\ icalls' = icalls
    /\ UNCHANGED <<cacheVars, cleanVars, cloneVars, discVars, selVars, findVars, lookupVars, setupVars>>

ImageIdle ==
    /\ ipc = "idle"
    /\ ishare = NoShare
    /\ icloned = FALSE
    /\ ihits = <<>>
    /\ ifail = "none"
    /\ ivol = FALSE
    /\ iret = None
    /\ iout = "none"
    /\ icalls = <<>>

\* ------------------------------------- NFSDriver._select_share_for_volume
\* 'mounted_on': ''
NoMount == 0

BetterShare_LastWins(capacity, size, best) == capacity > size /\ best <= capacity

\* volume_info['capacity'] > size and
\* best_share['capacity'] < volume_info['capacity']
BetterShare(capacity, size, best) == capacity > size /\ best < capacity

\* the lists of available capacities _share_capacity can report for the
\* lines of the shares file; no line when the file does not exist
ShareLists == UNION {[1..n -> 0..MaxCapacity] : n \in 0..MaxShareList}

\* best_share = {'capacity': 0, 'mounted_on': ''}
select_share_begin(caps, size) ==
    /\ selpc = "idle"
    /\ selpc' = "loop"
    /\ shares_config' = caps
    /\ selsize' = size
    /\ selidx' = 1
    /\ best_share' = [capacity |-> 0, mounted_on |-> NoMount]
    /\ UNCHANGED selout
    /\ UNCHANGED <<cacheVars, cleanVars, cloneVars, discVars, imgVars, findVars, lookupVars, setupVars>>

\* one line of the shares file: _share_capacity and the comparison
select_share_step ==
    /\ selpc = "loop"
    /\ selidx <= Len(shares_config)
    /\ LET volume_info == [capacity |-> shares_config[selidx], mounted_on |-> selidx]
       IN best_share' =
             IF BetterShare(volume_info.capacity, selsize, best_share.capacity)
             THEN volume_info
             ELSE best_share
    /\ selidx' = selidx + 1
    /\ UNCHANGED <<selpc, shares_config, selsize, selout>>
    /\ UNCHANGED <<cacheVars, cleanVars, cloneVars, discVars, imgVars, findVars, lookupVars, setupVars>>

\* if best_share['capacity'] < size: raise; return best_share
select_share_end ==
    /\ selpc = "loop"
    /\ selidx > Len(shares_config)
    /\ selpc' = "done"
    /\ selout' = IF best_share.capacity < selsize THEN "raised" ELSE "returned"
    /\ UNCHANGED <<shares_config, selsize, selidx, best_share>>
    /\ UNCHANGED <<cacheVars, cleanVars, cloneVars, discVars, imgVars, findVars, lookupVars, setupVars>>

SelectIdle ==
    /\ selpc = "idle"
    /\ shares_config = <<>>
    /\ selsize = 0
    /\ selidx = 1
    /\ best_share = [capacity |-> 0, mounted_on |-> NoMount]
    /\ selout = "none"

\* --------------------------------------------------- _find_old_cache_files
\* self.configuration.expiry_thres_minutes
expiry_thres_minutes == 1

\* what stat can say of the img-cache files of a share
FileStats == UNION {[S -> [amin : 0..MaxAge, mmin : 0..MaxAge]] : S \in SUBSET Images}

OldEnough_ByMtime(st) == st.mmin > expiry_thres_minutes

\* '-amin', '+%s' % (threshold_minutes)
OldEnough(st) == st.amin > expiry_thres_minutes

\* the call begins over a share whose img-cache files have these times
find_begin(st) ==
    /\ fpc = "idle"
    /\ fpc' = "find"
    /\ fstat' = st
    /\ UNCHANGED fres
    /\ UNCHANGED <<cacheVars, cleanVars, cloneVars, discVars, imgVars, selVars,
                 lookupVars, setupVars>>

\* find mount_fs -maxdepth 1 -name 'img-cache*' -amin +threshold_minutes
find_old_cache_files ==
    /\ fpc = "find"
    /\ fpc' = "done"
    /\ fres' = {i \in DOMAIN fstat : OldEnough(fstat[i])}
    /\ UNCHANGED fstat
    /\ UNCHANGED <<cacheVars, cleanVars, cloneVars, discVars, imgVars, selVars,
                 lookupVars, setupVars>>

FindIdle ==
    /\ fpc = "idle"
    /\ fstat = <<>>
    /\ fres = {}

\* ---------------------------------------------------- _find_image_in_cache
Found_Always(share, image_id) == TRUE

\* if os.path.exists(file_path), file_path being the cache file of the
\* image in the mount point of the share
Found(share, image_id) == path_exists(share, cache_file_name(image_id))

\* result = [], and the test of self._mounted_shares
find_image_in_cache_begin(image_id) ==
    /\ lpc = "idle"
    /\ lpc' = IF NumShares > 0 THEN "loop" ELSE "done"
    /\ limage' = image_id
    /\ lidx' = 1
    /\ lresult' = <<>>
    /\ UNCHANGED <<cacheVars, cleanVars, cloneVars, discVars, imgVars, selVars,
                   findVars, setupVars>>

\* one iteration of for share in self._mounted_shares, and return result
\* after the last
find_image_in_cache_share ==
    /\ lpc = "loop"
    /\ LET share == mounted_shares[lidx]
       IN lresult' = IF Found(share, limage)
                     THEN Append(lresult, <<share, cache_file_name(limage)>>)
                     ELSE lresult
    /\ lidx' = lidx + 1
    /\ lpc' = IF lidx = NumShares THEN "done" ELSE "loop"
    /\ UNCHANGED limage
    /\ UNCHANGED <<cacheVars, cleanVars, cloneVars, discVars, imgVars, selVars,
                   findVars, setupVars>>

LookupIdle ==
    /\ lpc = "idle"
    /\ limage = 1
    /\ lidx = 1
    /\ lresult = <<>>

\* ------------------------------------------------------ NFSDriver.do_setup
\* the lines of the shares file: a share, and whether its local mount
\* directory exists already
SetupLines ==
    UNION {[1..n -> [share : Shares, local_exists : BOOLEAN]] : n \in 0..MaxShareList}

PermissionsRaise_Never(access) == FALSE

\* if os.access(base, os.R_OK | os.W_OK | os.EX_OK) is False: raise
PermissionsRaise(access) == access = FALSE

\* if not os.path.exists(base): os.mkdir(...), which can raise
do_setup_begin(base_exists, mkdir_ok) ==
    /\ spc = "idle"
    /\ IF base_exists \/ mkdir_ok
       THEN spc' = "access" /\ UNCHANGED sout
       ELSE spc' = "done" /\ sout' = "OSError"
    /\ UNCHANGED <<saccess, slines, smounted, smade>>
    /\ UNCHANGED <<cacheVars, cleanVars, cloneVars, discVars, imgVars, selVars,
                   findVars, lookupVars>>

\* the permission check, the lookup of nobody and nogroup, and the opening
\* of the shares file (no line when the file does not exist)
do_setup_access(access, ids_ok, lines) ==
    /\ spc = "access"
    /\ saccess' = IF access THEN "granted" ELSE "denied"
    /\ IF PermissionsRaise(access)
       THEN spc' = "done" /\ sout' = "CinderException" /\ UNCHANGED slines
       ELSE IF ~ids_ok
            THEN spc' = "done" /\ sout' = "KeyError" /\ UNCHANGED slines
            ELSE spc' = "mount" /\ slines' = lines /\ UNCHANGED sout
    /\ UNCHANGED <<smounted, smade>>
    /\ UNCHANGED <<cacheVars, cleanVars, cloneVars, discVars, imgVars, selVars,
                   findVars, lookupVars>>

SetupAnswers == {"ok", "makedirs", "chown", "mount.nfs"}

\* one line of the shares file: if not os.path.exists(local_path_name):
\* os.makedirs, chown, mount.nfs; r names the call that raises, if any
do_setup_mount(r) ==
    /\ spc = "mount"
    /\ IF slines = <<>>
       THEN /\ spc' = "done"
            /\ sout' = "returned"
            /\ UNCHANGED <<slines, smounted, smade>>
       ELSE LET l == Head(slines)
            IN IF l.local_exists \/ l.share \in smade
               THEN /\ slines' = Tail(slines)
                    /\ UNCHANGED <<spc, sout, smounted, smade>>
               ELSE /\ smade' = IF r = "makedirs" THEN smade ELSE smade \cup {l.share}
                    /\ smounted' = IF r = "ok" THEN smounted \cup {l.share} ELSE smounted
                    /\ IF r = "ok"
                       THEN slines' = Tail(slines) /\ UNCHANGED <<spc, sout>>
                       ELSE /\ spc' = "done"
                            /\ sout' = IF r = "makedirs" THEN "OSError"
                                       ELSE "ProcessExecutionError"
                            /\ UNCHANGED slines
    /\ UNCHANGED saccess
    /\ UNCHANGED <<cacheVars, cleanVars, cloneVars, discVars, imgVars, selVars,
                   findVars, lookupVars>>

SetupIdle ==
    /\ spc = "idle"
    /\ saccess = "none"
    /\ slines = <<>>
    /\ smounted = {}
    /\ smade = {}
    /\ sout = "none"

\* ------------------------------------------------------- specifications
WorkersIdle ==
    /\ lock = [n \in LockNames |-> Free]
    /\ wpc = [w \in Workers |-> "idle"]
    /\ wop = [w \in Workers |-> IdleOp]
    /\ populate = [f \in CacheFiles |->
                      [requests |-> 0, clones |-> 0, raised |-> 0, found |-> 0]]

CleanIdle ==
    /\ cleaning = FALSE
    /\ ignored = FALSE
    /\ cpc = [c \in Timers |-> "off"]
    /\ cidx = [c \in Timers |-> 1]
    /\ clist = [c \in Timers |-> <<>>]
    /\ cbtf = [c \in Timers |-> 0]
    /\ cdeficit = [c \in Timers |-> 0]
    /\ cdeleted = [c \in Timers |-> <<>>]
    /\ cfailed = [c \in Timers |-> <<>>]
    /\ cskipped = [c \in Timers |-> 0]

SeqIdle ==
    /\ CloneIdle /\ DiscoverIdle /\ ImageIdle /\ SelectIdle /\ FindIdle
    /\ LookupIdle /\ SetupIdle

\* a driver starting over empty shares
Init == files = {} /\ WorkersIdle /\ CleanIdle /\ SeqIdle

\* a driver starting over shares that hold cache files of earlier runs
InitEvict == files \in SUBSET CacheFiles /\ WorkersIdle /\ CleanIdle /\ SeqIdle

NextPopulate ==
    \/ \E w \in Workers, i \in Images, s \in Shares : register_image_in_cache(w, i, s)
    \/ \E w \in Workers, i \in Images, s \in Shares : clone_from_cache(w, i, s)
    \/ \E w \in Workers : do_clone_enter(w)
    \/ \E w \in Workers, ok \in BOOLEAN : do_clone_return(w, ok)
    \/ \E w \in Workers, s \in Shares : unlink_vol_path(w, s)

NextEvict ==
    \/ spawn_clean_cache_job
    \/ \E c \in Timers : clean_share(c)
    \/ \E c \in Timers : do_delete_enter(c)
    \/ \E c \in Timers, ok \in BOOLEAN : do_delete_return(c, ok)
    \/ \E c \in Timers : clean_image_cache_done(c)

Next == NextPopulate \/ NextEvict

Spec == Init /\ [][Next]_vars

SpecPopulate == Init /\ [][NextPopulate]_vars

SpecEvict == InitEvict /\ [][NextEvict]_vars

\* the steps of the timer thread that runs _clean_image_cache
PassStep(c) ==
    \/ clean_share(c)
    \/ do_delete_enter(c)
    \/ \E ok \in BOOLEAN : do_delete_return(c, ok)
    \/ clean_image_cache_done(c)

\* the timer thread is scheduled and each call it makes returns or raises
\* a driver starting over a cache whose files are all on the first mounted
\* share
InitEvictFair ==
    /\ files \in SUBSET {f \in CacheFiles : f[1] = mounted_shares[1]}
    /\ WorkersIdle /\ CleanIdle /\ SeqIdle

SpecEvictFair ==
    /\ InitEvictFair
    /\ [][NextEvict]_vars
    /\ WF_vars(\E c \in Timers : PassStep(c))

NextClone ==
    \/ \E found \in BOOLEAN : clone_volume_begin(found)
    \/ \E ok \in BOOLEAN, uuid \in {"uuid", None} : start_clone(ok, uuid)
    \/ \E a \in StatusAnswers : wait_for_clone_finish(a)
    \/ \E ok \in BOOLEAN : clear_clone(ok)

SpecClone == Init /\ [][NextClone]_vars

NextDiscover ==
    \/ \E a \in (0..MaxAppearAt) \cup {Never} : discover_begin(a)
    \/ discover_check
    \/ discover_sleep

SpecDiscover == Init /\ [][NextDiscover]_vars

Answers == {"yes", "no", "raise"}

NextCloneImage ==
    \/ \E found \in SUBSET Shares, ok \in BOOLEAN : clone_image_begin(found, ok)
    \/ \E e \in Answers : cache_next(e)
    \/ \E ok \in BOOLEAN : cache_clone(ok)
    \/ \E sh \in Shares \cup {NoShare}, e \in Answers : direct_begin(sh, e)
    \/ \E fmt \in {"raw", "other", "raise"} : direct_info(fmt)
    \/ \E ok \in BOOLEAN : direct_clone(ok)
    \/ \E r \in {"raw", "raw_warm_failed", "notraw", "raise"} : direct_convert(r)
    \/ \E found \in BOOLEAN : post_discover(found)
    \/ \E ok \in BOOLEAN : post_perms(ok)
    \/ \E r \in {"equal", "unequal", "raise"} : resize_check(r)
    \/ \E r \in {"equal", "unequal", "raise_resize", "raise_check"} : resize_image(r)
    \/ img_except
    \/ img_finally

SpecCloneImage == Init /\ [][NextCloneImage]_vars

\* volume['size'] is a positive number of GiB
NextSelect ==
    \/ \E caps \in ShareLists, size \in 1..MaxVolSize : select_share_begin(caps, size)
    \/ select_share_step
    \/ select_share_end

SpecSelect == Init /\ [][NextSelect]_vars

NextFind ==
    \/ \E st \in FileStats : find_begin(st)
    \/ find_old_cache_files

SpecFind == Init /\ [][NextFind]_vars

NextLookup ==
    \/ \E i \in Images : find_image_in_cache_begin(i)
    \/ find_image_in_cache_share

SpecLookup == InitEvict /\ [][NextLookup]_vars

NextSetup ==
    \/ \E base_exists, mkdir_ok \in BOOLEAN : do_setup_begin(base_exists, mkdir_ok)
    \/ \E access, ids_ok \in BOOLEAN, lines \in SetupLines :
           do_setup_access(access, ids_ok, lines)
    \/ \E r \in SetupAnswers : do_setup_mount(r)

SpecSetup == Init /\ [][NextSetup]_vars

\* ---------------------------------------------------------------- claims
Last(q) == q[Len(q)]

\* workers between the exists-check and the return of the clone call of
\* _do_clone_rel_img_cache for the cache file of image i on share s
InFlight(s, i) ==
    {w \in Workers : wpc[w] = "cloning" /\ wop[w].share = s /\ wop[w].image = i}

\* C1: at most one worker at a time is between the exists-check and the
\* return of the clone call for a given cache file (imageId, share)
C1_SingleFlightPopulate ==
    \A s \in Shares, i \in Images : Cardinality(InFlight(s, i)) <= 1

C1_Witness ==
    \E w1, w2 \in Workers :
        /\ w1 # w2
        /\ wpc[w1] = "cloning" /\ wop[w1].kind = "register"
        /\ wpc[w2] = "wait" /\ wop[w2] = wop[w1]

\* all workers have finished a populate request for the same key
AllPopulated(s, i) ==
    /\ \A w \in Workers : wpc[w] = "done"
    /\ populate[<<s, cache_file_name(i)>>].requests = NumWorkers

\* C2 as stated: N concurrent populate requests for one key execute the
\* clone primitive exactly once and all end with the cache file present
C2_ExactlyOnce ==
    \A s \in Shares, i \in Images :
        AllPopulated(s, i) =>
            /\ populate[<<s, cache_file_name(i)>>].clones = 1
            /\ populate[<<s, cache_file_name(i)>>].found = NumWorkers

\* C2 amended: the clone primitive is executed once per caller until one
\* execution succeeds; at most one execution succeeds, later callers issue
\* no clone and find the file; if every execution raises the file is absent
C2_OnceUntilSuccess ==
    \A s \in Shares, i \in Images :
        AllPopulated(s, i) =>
            LET p == populate[<<s, cache_file_name(i)>>]
                ok == p.clones - p.raised
            IN /\ ok \in {0, 1}
               /\ p.raised = 0 => p.clones = 1
               /\ ok = 1 <=> path_exists(s, cache_file_name(i))
               /\ ok = 1 => p.found = NumWorkers - p.raised
               /\ ok = 0 => p.raised = NumWorkers /\ p.found = 0

C2_Witness ==
    \E s \in Shares, i \in Images :
        /\ AllPopulated(s, i)
        /\ populate[<<s, cache_file_name(i)>>].raised > 0
        /\ populate[<<s, cache_file_name(i)>>].clones
              > populate[<<s, cache_file_name(i)>>].raised

\* C3: the per-file delete of the eviction pass and the clone of
\* _do_clone_rel_img_cache for the same cache file are never both in their
\* critical sections
C3_NoDeleteDuringClone ==
    \A c \in Timers, w \in Workers :
        ~ /\ cpc[c] = "deleting"
          /\ wpc[w] = "cloning"
          /\ op_cache_file(w) = clist[c][1][1]
          /\ wop[w].share = mounted_shares[cidx[c]]

C3_Witness ==
    \E c \in Timers, w \in Workers :
        /\ cpc[c] = "deleting"
        /\ wpc[w] = "wait"
        /\ op_cache_file(w) = clist[c][1][1]
        /\ wop[w].share = mounted_shares[cidx[c]]

RECURSIVE SumSizes(_)
SumSizes(q) == IF Len(q) = 0 THEN 0
               ELSE StrInt(Last(q)[2]) + SumSizes(SubSeq(q, 1, Len(q) - 1))

\* C4 as stated: on every share the sizes of the deleted files sum to at
\* most the deficit
C4_NeverOverDeficit ==
    \A c \in Timers : SumSizes(cdeleted[c]) <= cdeficit[c]

\* C4 amended: not counting the last file deleted, the deleted sizes sum
\* to less than the deficit, and nothing is deleted for a deficit <= 0
C4_OvershootBelowLastFile ==
    \A c \in Timers :
        Len(cdeleted[c]) > 0 =>
            /\ cdeficit[c] > 0
            /\ SumSizes(cdeleted[c]) - StrInt(Last(cdeleted[c])[2]) < cdeficit[c]

C4_Witness ==
    \E c \in Timers :
        /\ Len(cdeleted[c]) = 2
        /\ SumSizes(cdeleted[c]) > cdeficit[c]

RunningPasses == {c \in Timers : cpc[c] # "off"}

\* C5: at most one eviction pass runs at a time, and a trigger that
\* arrives during a pass starts nothing and leaves nothing pending
C5_SingleFlightEviction ==
    /\ [](Cardinality(RunningPasses) <= 1)
    /\ [](cleaning <=> Cardinality(RunningPasses) = 1)
    /\ [][(~ignored /\ ignored') =>
             (cleaning /\ UNCHANGED <<cleaning, cpc, cidx, clist, cbtf, files, lock>>)]_vars

C5_Witness == ignored /\ cleaning /\ Cardinality(RunningPasses) = 1

\* C6: the wait ends at the first answer that is not Running: completed
\* returns, failed raises the backend's code and reason, no entry raises
\* UnknownCloneId, and nothing is asked after it
C6_TerminalOutcome ==
    /\ \A j \in 1..(Len(k7log) - 1) : k7log[j].kind = "running"
    /\ (Len(k7log) > 0 /\ Last(k7log).kind # "running") => k7pc \in {"clear", "done"}
    /\ (k7pc = "done" /\ Len(k7log) > 0) =>
          /\ Last(k7log).kind = "completed" => k7out = "returned"
          /\ Last(k7log).kind = "failed" =>
                k7out = "raised" /\ k7err = <<Last(k7log).code, Last(k7log).reason>>
          /\ Last(k7log).kind = "empty" =>
                k7out = "raised" /\ k7err[1] = "UnknownCloneId"

C6_Witness ==
    /\ k7pc = "done"
    /\ Len(k7log) = 3
    /\ Last(k7log).kind = "failed"
    /\ k7out = "raised"

\* C7: a clone that failed with a code X other than UnknownCloneId raises
\* X to the caller after exactly one call of _clear_clone
C7_FailedClearsOnce ==
    (/\ k7pc = "done"
     /\ Len(k7log) > 0
     /\ Last(k7log).kind = "failed"
     /\ Last(k7log).code # "UnknownCloneId") =>
        /\ k7out = "raised"
        /\ k7err[1] = Last(k7log).code
        /\ k7clears = 1
        /\ k7rpcs \in 1..3

C7_Witness ==
    /\ k7pc = "done"
    /\ Len(k7log) = 2
    /\ k7log[1].kind = "running"
    /\ k7log[2].kind = "failed" /\ k7log[2].code = "X"
    /\ k7clears = 1

\* C8: a clone that failed with code UnknownCloneId raises it to the
\* caller and _clear_clone is never called
C8_UnknownCloneIdSkipsClear ==
    /\ k7pc = "clear" => k7err[1] # "UnknownCloneId"
    /\ (/\ k7pc = "done"
        /\ Len(k7log) > 0
        /\ \/ Last(k7log).kind = "empty"
           \/ /\ Last(k7log).kind \in {"failed", "apierror"}
              /\ Last(k7log).code = "UnknownCloneId") =>
          /\ k7out = "raised"
          /\ k7err[1] = "UnknownCloneId"
          /\ k7clears = 0
          /\ k7rpcs = 0

C8_Witness ==
    /\ k7pc = "done"
    /\ Len(k7log) > 0
    /\ Last(k7log).kind = "empty"
    /\ k7out = "raised"
    /\ k7clears = 0

\* C9 as stated: no existence check later than 45 s after the start, and
\* a file first present at 46 s is reported not-found
C9_DiscoveryBoundary ==
    /\ dlastcheck <= 45
    /\ (dpc = "done" /\ dappear = 46) => dresult = FALSE

WarmFailed ==
    \E k \in 1..(Len(icalls) - 1) :
        icalls[k] = "register_image_in_cache" /\ icalls[k + 1] = "LOG.warn"

\* C11: an exception of the clone into the cache file is swallowed by
\* _register_image_in_cache: clone_image goes on to the post-clone step
\* with cloned = True and its result is what the post-clone step decides,
\* as after a populate that succeeded
C11_WarmFailureSwallowed ==
    WarmFailed =>
        /\ ifail # "register"
        /\ iout # "raised"
        /\ ipc \notin {"except", "direct_convert"}
        /\ ipc \in {"post", "perms", "resize", "resize_image"} => icloned /\ ivol
        /\ ipc = "done" => iret.cloned = (ifail = "none")

C11_Witness ==
    /\ WarmFailed
    /\ ipc = "done"
    /\ iret.cloned
    /\ iret.provider_location \in Shares

\* the shares with available > requestedSize
Qualifying == {k \in 1..Len(shares_config) : shares_config[k] > selsize}

\* the first share in list order among those of greatest available capacity
FirstGreatest(Q) ==
    CHOOSE k \in Q :
        /\ \A j \in Q : shares_config[j] <= shares_config[k]
        /\ \A j \in Q : shares_config[j] = shares_config[k] => k <= j

\* C12: _select_share_for_volume returns the share of greatest available
\* capacity among those with available > size, the first in list order on
\* a tie, and raises when no share has available > size
C12_SelectGreatestFirst ==
    selpc = "done" =>
        IF Qualifying = {}
        THEN selout = "raised"
        ELSE /\ selout = "returned"
             /\ best_share.mounted_on = FirstGreatest(Qualifying)
             /\ best_share.capacity = shares_config[FirstGreatest(Qualifying)]

C12_Witness ==
    /\ selpc = "done"
    /\ selout = "returned"
    /\ \E j \in Qualifying :
          j > best_share.mounted_on /\ shares_config[j] = best_share.capacity
    /\ \E j \in 1..Len(shares_config) : j \notin Qualifying

\* _resize_vol has been entered: _set_rw_permissions_for_all returned
ResizeStarted ==
    /\ \E k \in 1..Len(icalls) : icalls[k] = "set_rw_permissions_for_all"
    /\ ifail # "perms"

\* the calls made since _resize_vol was entered
ResizeLog ==
    LET k == CHOOSE j \in 1..Len(icalls) : icalls[j] = "set_rw_permissions_for_all"
    IN SubSeq(icalls, k + 1, Len(icalls))

PostReturned == ipc \in {"finally", "done"}

\* C13: _resize_vol succeeds without a resize call when the first size
\* check says equal; otherwise it calls resize_image exactly once and
\* checks the size once more; when the size is still unequal (or a call
\* raises) it returns False and the volume file is gone
C13_ResizeOnceThenDelete ==
    ResizeStarted =>
        /\ ipc = "resize" => ResizeLog = <<>>
        /\ ipc = "resize_image" => ResizeLog = <<"is_file_size_equal">>
        /\ PostReturned =>
              \/ /\ icloned /\ ivol /\ ifail = "none"
                 /\ ResizeLog \in {<<"is_file_size_equal">>,
                                   <<"is_file_size_equal", "resize_image",
                                     "is_file_size_equal">>}
              \/ /\ ~icloned /\ ~ivol /\ ifail = "resize"
                 /\ ResizeLog \in {<<"is_file_size_equal", "unlink">>,
                                   <<"is_file_size_equal", "resize_image", "unlink">>,
                                   <<"is_file_size_equal", "resize_image",
                                     "is_file_size_equal", "unlink">>}

C13_Witness ==
    /\ ResizeStarted
    /\ ipc = "done"
    /\ ResizeLog = <<"is_file_size_equal", "resize_image",
                     "is_file_size_equal", "unlink">>
    /\ ~ivol
    /\ ~iret.cloned

\* C14: after _post_img_clone returned False because discovery,
\* permission fixing or resize failed, the cloned volume file does not
\* exist
C14_NoPartialFile ==
    (PostReturned /\ ifail \in {"discover", "perms", "resize"}) => ~ivol

\* C15: a cache file leaves the shares only in the step in which the
\* eviction pass returns from deleting it; populate, clone from cache and
\* the removal of volume files never delete a file named img-cache-<id>
C15_OnlyEvictionDeletes ==
    [][\A f \in CacheFiles :
          (f \in files /\ f \notin files') =>
              \E c \in Timers :
                  /\ cpc[c] = "deleting"
                  /\ cpc'[c] # "deleting"
                  /\ mounted_shares[cidx[c]] = f[1]
                  /\ clist[c][1][1] = f[2]
                  /\ cdeleted'[c] = Append(cdeleted[c], clist[c][1])]_vars

\* a cache file that was populated, cloned from and then evicted, next to
\* a volume file that was removed
C15_Witness ==
    \E f \in CacheFiles :
        /\ f \notin files
        /\ populate[f].found > 0
        /\ \E c \in Timers : Len(cdeleted[c]) > 0 /\ cdeleted[c][1][1] = f[2]
        /\ \E w \in Workers :
              /\ wpc[w] = "done"
              /\ \A s \in Shares : ~path_exists(s, volume_name(w))

\* positions of a call in the log of clone_image
Calls(name) == {k \in 1..Len(icalls) : icalls[k] = name}

\* all calls named in A come before all calls named in B
Before(A, B) ==
    \A a \in A, b \in B : \A j \in Calls(a), k \in Calls(b) : j < k

CacheMiss == Calls("is_cloneable_share") # {}

PostCalls == {"discover_file_till_timeout", "set_rw_permissions_for_all",
              "is_file_size_equal", "resize_image"}

\* Lookup, Populate, CloneFromCache, Discover, FixPermissions, Resize in
\* this order
StepsInOrder(populate_calls, clone_calls) ==
    /\ Before({"find_image_in_cache"}, populate_calls \cup clone_calls \cup PostCalls)
    /\ Before(populate_calls \cup clone_calls, PostCalls)
    /\ Before({"discover_file_till_timeout"},
              {"set_rw_permissions_for_all", "is_file_size_equal", "resize_image"})
    /\ Before({"set_rw_permissions_for_all"}, {"is_file_size_equal", "resize_image"})

\* C16 as stated: on a cache miss the cache file is populated first and
\* the volume is then cloned from the cache file, the steps being in the
\* order Lookup, Populate-on-miss, CloneFromCache, Discover, FixPermissions,
\* Resize
C16_PopulateThenCloneFromCache ==
    /\ StepsInOrder({"register_image_in_cache"},
                    {"do_clone_rel_img_cache", "clone_volume", "convert_image"})
    /\ Before({"register_image_in_cache"},
              {"do_clone_rel_img_cache", "clone_volume", "convert_image"})
    /\ (CacheMiss /\ ipc = "done" /\ iret.cloned) =>
          /\ Calls("register_image_in_cache") # {}
          /\ Calls("do_clone_rel_img_cache") # {}

\* C16 amended: after the lookup the volume is created (cloned from the
\* cache file on a hit; on a miss cloned from the base image when it is
\* raw, converted from it otherwise), the cache file is populated only
\* after a conversion, from the new volume, and never on a hit or for a raw
\* image; then come Discover, FixPermissions, Resize, all of which have run
\* when clone_image returns cloned = True
C16_CreateThenPopulate ==
    /\ StepsInOrder({"register_image_in_cache"},
                    {"do_clone_rel_img_cache", "clone_volume", "convert_image"})
    /\ \A k \in Calls("register_image_in_cache") :
          k > 1 /\ icalls[k - 1] = "convert_image"
    /\ CacheMiss => Calls("do_clone_rel_img_cache") = {}
    /\ ~CacheMiss => Calls("register_image_in_cache") \cup Calls("clone_volume")
                        \cup Calls("convert_image") = {}
    /\ Calls("clone_volume") # {} => Calls("register_image_in_cache") = {}
    /\ (ipc = "done" /\ iret.cloned) =>
          /\ Calls("find_image_in_cache") # {}
          /\ Calls("do_clone_rel_img_cache") \cup Calls("clone_volume")
                \cup Calls("convert_image") # {}
          /\ \A c \in {"discover_file_till_timeout", "set_rw_permissions_for_all",
                       "is_file_size_equal"} : Calls(c) # {}

C16_Witness ==
    /\ ipc = "done"
    /\ iret.cloned
    /\ CacheMiss
    /\ Calls("register_image_in_cache") # {}
    /\ Calls("resize_image") # {}

\* the share the pass has just left
LeftShare(c) == mounted_shares[cidx[c] - 1]

\* the share loop of pass c is between two shares after a deletion loop
AfterDeletion(c) == cpc[c] = "run" /\ cdeficit[c] > 0

\* C17: a failure on one candidate leaves no other candidate of the share
\* out: no candidate is left out because a file-usage query raised, and
\* after a deletion that failed the loop goes on, so that candidates stay
\* unattempted only when the deficit is met
C17_FailureIsPerCandidate ==
    \A c \in Timers :
        /\ cskipped[c] = 0
        /\ (AfterDeletion(c) /\ clist[c] # <<>>) =>
              SumSizes(cdeleted[c]) >= cdeficit[c]
        /\ cpc[c] = "run" => cleaning

\* C19: a candidate is attempted only while the sizes of the files deleted
\* so far on the share sum to less than the deficit; only successful
\* deletions count, and the candidates left when the deficit is met are
\* neither deleted nor attempted
C19_StopsWhenDeficitMet ==
    \A c \in Timers :
        /\ cpc[c] \in {"del", "deleting"} =>
              /\ SumSizes(cdeleted[c]) < cdeficit[c]
              /\ clist[c] # <<>>
        /\ cdeficit[c] > 0 => cbtf[c] = cdeficit[c] - SumSizes(cdeleted[c])
        /\ (AfterDeletion(c) /\ SumSizes(cdeleted[c]) >= cdeficit[c]) =>
              \A k \in 1..Len(clist[c]) :
                  /\ path_exists(LeftShare(c), clist[c][k][1])
                  /\ \A j \in 1..Len(cdeleted[c]) : cdeleted[c][j][1] # clist[c][k][1]
                  /\ \A j \in 1..Len(cfailed[c]) : cfailed[c][j][1] # clist[c][k][1]

C19_Witness ==
    \E c \in Timers :
        /\ AfterDeletion(c)
        /\ SumSizes(cdeleted[c]) >= cdeficit[c]
        /\ clist[c] # <<>>

\* C20: when the sizes of all candidates of a share sum to less than a
\* positive deficit, the deletion loop leaves no candidate unattempted,
\* every candidate is deleted unless its own rm failed, and the pass goes
\* on to the next share
C20_ExhaustsBelowDeficit ==
    \A c \in Timers :
        (AfterDeletion(c)
           /\ SumSizes(cdeleted[c] \o cfailed[c] \o clist[c]) < cdeficit[c]) =>
            /\ clist[c] = <<>>
            /\ \A k \in 1..Len(cdeleted[c]) :
                  ~path_exists(LeftShare(c), cdeleted[c][k][1])
            /\ cfailed[c] = <<>> =>
                  cache_files_on(LeftShare(c)) \cap
                      {i \in Images : \E k \in 1..Len(cdeleted[c]) :
                                         cdeleted[c][k][1] = cache_file_name(i)} = {}
            /\ cleaning

C20_Witness ==
    \E c \in Timers :
        /\ AfterDeletion(c)
        /\ Len(cdeleted[c]) = NumImages
        /\ cfailed[c] = <<>>
        /\ clist[c] = <<>>
        /\ SumSizes(cdeleted[c]) < cdeficit[c]
        /\ cache_files_on(LeftShare(c)) = {}

\* the loop of _wait_for_clone_finish is left in this step
LeavesPoll == k7pc = "poll" /\ k7pc' # "poll"

\* C18 as stated: the loop of _wait_for_clone_finish goes on after every
\* answer that says running and ends exactly when the backend reports
\* completed, failed or no entry for the job
C18_EndsOnlyOnReport ==
    [][k7pc = "poll" =>
          /\ LeavesPoll <=> Last(k7log').kind \in {"completed", "failed", "empty"}
          /\ ~LeavesPoll <=> Last(k7log').kind = "running"]_vars

\* C18 amended: the loop has no bound of its own; it goes on after every
\* answer that says running, however many there have been, and ends
\* exactly when the backend reports completed, failed or no entry for the
\* job, or when the status request itself raises
C18_EndsOnReportOrApiError ==
    /\ [][k7pc = "poll" =>
            /\ LeavesPoll <=>
                  Last(k7log').kind \in {"completed", "failed", "empty", "apierror"}
            /\ ~LeavesPoll <=> Last(k7log').kind = "running"]_vars
    /\ [](k7pc = "poll" =>
            /\ \A j \in 1..Len(k7log) : k7log[j].kind = "running"
            /\ k7out = "none")

C18_Witness ==
    /\ k7pc = "poll"
    /\ Runnings(k7log) = MaxPolls
    /\ Len(k7log) = MaxPolls
    /\ k7out = "none"

\* C21: the files deleted on a share are deleted in non-increasing order
\* of their numeric reclaimable size
C21_LargestFirst ==
    \A c \in Timers :
        \A j, k \in 1..Len(cdeleted[c]) :
            j < k => StrInt(cdeleted[c][j][2]) >= StrInt(cdeleted[c][k][2])

\* available/total*100 <= startThresholdPercent, without rounding
AtOrBelowStart(cap) == cap[2] * 100 <= thres_avl_size_perc_start * cap[1]

\* C22: the pass starts deleting on a share only when the capacity it
\* probed has available/total*100 <= start threshold; a share above the
\* threshold by a fraction of a percent has nothing deleted
C22_CleansOnlyAtOrBelowStart ==
    [][\A c \in Timers :
          (cpc[c] = "run" /\ cpc'[c] = "del") =>
              \E cap \in Capacities :
                  /\ AtOrBelowStart(cap)
                  /\ cdeficit'[c] = bytes_to_free(cap[1], cap[2])]_vars

\* C23 as stated: the candidates of a share are exactly the cache files
\* whose modification time is older than expiry_thres_minutes
C23_ByModificationTime ==
    fpc = "done" =>
        fres = {i \in DOMAIN fstat : fstat[i].mmin > expiry_thres_minutes}

\* C23 amended: the candidates of a share are exactly the cache files
\* whose last access is older than expiry_thres_minutes, whatever their
\* modification time
C23_ByAccessTime ==
    fpc = "done" =>
        fres = {i \in DOMAIN fstat : fstat[i].amin > expiry_thres_minutes}

C23_Witness ==
    /\ fpc = "done"
    /\ \E i \in fres : fstat[i].mmin <= expiry_thres_minutes
    /\ \E i \in DOMAIN fstat \ fres : fstat[i].mmin > expiry_thres_minutes

\* C24: a deletion that fails leaves the file and the bytes still to free
\* as they were and the pass goes on, to the next candidate of the list or,
\* when the list is exhausted, to the next share; the bytes still to free
\* change only by the size of a candidate whose deletion succeeded
C24_FailedDeletionSkipped ==
    [][\A c \in Timers :
          cpc[c] = "deleting" =>
              /\ cfailed'[c] # cfailed[c] =>
                    /\ cfailed'[c] = Append(cfailed[c], clist[c][1])
                    /\ files' = files
                    /\ cbtf'[c] = cbtf[c]
                    /\ cdeleted'[c] = cdeleted[c]
                    /\ IF Len(clist[c]) > 1
                       THEN /\ cpc'[c] = "del"
                            /\ clist'[c] = Tail(clist[c])
                            /\ cidx'[c] = cidx[c]
                       ELSE /\ cpc'[c] = "run"
                            /\ cidx'[c] = cidx[c] + 1
              /\ cbtf'[c] # cbtf[c] =>
                    /\ cdeleted'[c] = Append(cdeleted[c], clist[c][1])
                    /\ cbtf'[c] = cbtf[c] - StrInt(clist[c][1][2])
                    /\ files' = files \ {<<mounted_shares[cidx[c]], clist[c][1][1]>>}]_vars

C24_Witness ==
    \E c \in Timers :
        /\ cpc[c] = "deleting"
        /\ cfailed[c] # <<>>
        /\ cdeleted[c] = <<>>
        /\ cbtf[c] = cdeficit[c]
        /\ \A j \in 1..Len(cfailed[c]) :
               path_exists(mounted_shares[cidx[c]], cfailed[c][j][1])

\* C25: a call of _do_clone_rel_img_cache that finds its destination file
\* present returns without issuing a clone and leaves the files, the locks
\* and the clones issued as they were
C25_PopulateIdempotent ==
    [][\A w \in Workers :
          (/\ wpc[w] = "wait"
           /\ wpc'[w] # "wait"
           /\ path_exists(wop[w].share, op_dst(w))) =>
              /\ wpc'[w] = "done"
              /\ files' = files
              /\ lock' = lock
              /\ \A f \in CacheFiles :
                    /\ populate'[f].clones = populate[f].clones
                    /\ populate'[f].raised = populate[f].raised]_vars

\* a second populate of a cache file has returned after a first that cloned
C25_Witness ==
    \E f \in CacheFiles :
        /\ f \in files
        /\ populate[f].requests = 2
        /\ populate[f].clones = 1
        /\ populate[f].raised = 0
        /\ populate[f].found = 2
        /\ \A w \in Workers : wpc[w] = "done"
        /\ \A n \in DOMAIN lock : lock[n] = Free

\* workers inside the clone call of _do_clone_rel_img_cache that satisfy P
Cloning(P(_)) == {v \in Workers : wpc[v] = "cloning" /\ P(v)}

\* C26 as stated: a call of _do_clone_rel_img_cache is kept waiting exactly
\* when a call for the same share and the same cache file name is in
\* progress, so that calls for one image on two shares run at the same time
C26_KeyedByShareAndName ==
    \A w \in Workers :
        wpc[w] = "wait" =>
            LET SameKey(v) == /\ wop[v].share = wop[w].share
                              /\ op_cache_file(v) = op_cache_file(w)
            IN (lock[op_cache_file(w)] # Free) <=> (Cloning(SameKey) # {})

\* C26 amended: a call of _do_clone_rel_img_cache is kept waiting exactly
\* when a call for the same cache file name is in progress, on whatever
\* share; no two calls for one cache file name are in progress at once
C26_KeyedByNameAlone ==
    /\ \A w \in Workers :
           wpc[w] = "wait" =>
               LET SameName(v) == op_cache_file(v) = op_cache_file(w)
               IN (lock[op_cache_file(w)] # Free) <=> (Cloning(SameName) # {})
    /\ \A w \in Workers :
           wpc[w] = "cloning" =>
               LET SameName(v) == op_cache_file(v) = op_cache_file(w)
               IN /\ Cloning(SameName) = {w}
                  /\ lock[op_cache_file(w)] = <<"w", w>>

\* a populate of an image on one share waits for the populate of the same
\* image on another share
C26_Witness ==
    \E w1, w2 \in Workers :
        /\ wpc[w1] = "cloning" /\ wop[w1].kind = "register"
        /\ wpc[w2] = "wait" /\ wop[w2].kind = "register"
        /\ wop[w1].image = wop[w2].image
        /\ wop[w1].share # wop[w2].share
        /\ lock[op_cache_file(w2)] = <<"w", w1>>

\* C27: a named lock is held only by a worker inside the clone call for
\* that name or by a pass inside the delete of that file, so that with
\* nobody inside, after whatever raised or failed, every lock is free
C27_LocksReleasedOnEveryExit ==
    \A n \in DOMAIN lock :
        lock[n] # Free =>
            \/ \E w \in Workers :
                  /\ wpc[w] = "cloning"
                  /\ op_cache_file(w) = n
                  /\ lock[n] = <<"w", w>>
            \/ \E c \in Timers :
                  /\ cpc[c] = "deleting"
                  /\ clist[c][1][1] = n
                  /\ lock[n] = <<"c", c>>

\* nobody is inside after a clone raised and a delete failed
C27_Witness ==
    /\ \A n \in DOMAIN lock : lock[n] = Free
    /\ \A w \in Workers : wpc[w] # "cloning"
    /\ \A c \in Timers : cpc[c] # "deleting"
    /\ \E c \in Timers : cfailed[c] # <<>>
    /\ \E f \in CacheFiles : populate[f].raised > 0

\* C28: _clear_clone sends clone-clear at most 3 times, each time only after
\* the requests before it failed, and sends none after one that succeeded;
\* when it ends, with a success or with 3 failures, _clone_volume raises
\* the error that the wait for the clone ended with
C28_ClearBoundedThenReraise ==
    /\ k7rpcs <= 3
    /\ k7clears <= 1
    /\ k7pc = "clear" =>
          /\ k7retry \in 1..3
          /\ k7rpcs = 3 - k7retry
          /\ k7out = "none"
    /\ (k7pc = "done" /\ k7clears = 1) =>
          /\ k7out = "raised"
          /\ Last(k7log).kind \in {"failed", "apierror"}
          /\ k7err = <<Last(k7log).code, Last(k7log).reason>>
          /\ k7rpcs = IF k7retry = 0 THEN 3 ELSE 4 - k7retry

\* one clone-clear failed, the second succeeded and no third was sent
C28_Witness ==
    /\ k7pc = "done"
    /\ k7clears = 1
    /\ k7out = "raised"
    /\ k7rpcs = 2
    /\ k7retry = 2

\* the status answers before the last were all Running
RunningThen(log) == \A j \in 1..(Len(log) - 1) : log[j].kind = "running"

\* C29: the wait goes on, one sleep per answer, exactly as long as the
\* answers are Running, and the first Completed answer ends it with success:
\* after k Running answers and Completed the clone has returned with k
\* sleeps made and no clone-clear sent
C29_RunningThenCompleted ==
    /\ k7pc = "poll" => \A j \in 1..Len(k7log) : k7log[j].kind = "running"
    /\ (k7log # <<>> /\ Last(k7log).kind = "completed") =>
          /\ k7pc = "done"
          /\ k7out = "returned"
    /\ (k7pc = "done" /\ k7out = "returned" /\ k7uuid # None) =>
          /\ k7log # <<>>
          /\ Last(k7log).kind = "completed"
          /\ RunningThen(k7log)
          /\ Runnings(k7log) = Len(k7log) - 1
          /\ k7clears = 0
          /\ k7rpcs = 0

C29_Witness ==
    /\ k7pc = "done"
    /\ k7out = "returned"
    /\ Len(k7log) = 3
    /\ k7log[1].kind = "running"
    /\ k7log[2].kind = "running"
    /\ k7log[3].kind = "completed"
    /\ k7clears = 0

\* the existence checks made so far were made at these seconds
ChecksMade == {t \in 0..dlastcheck : t % sleep_interval = 0}

\* the file was there at second t
PresentAt(t) == dappear # Never /\ dappear <= t

\* C30: the checks are made every sleep_interval seconds and none later
\* than the second at which the retry budget is used up; found is returned
\* at the first check at which the file is there and ends the checks;
\* not-found is returned only when the file was absent at every check made
C30_DiscoveryTerminates ==
    /\ dnow % sleep_interval = 0
    /\ retry_seconds = retry_seconds_start - dnow
    /\ retry_seconds > -sleep_interval
    /\ dlastcheck <= dnow
    /\ dpc = "done" =>
          /\ dlastcheck = dnow
          /\ IF dresult = TRUE
             THEN /\ PresentAt(dlastcheck)
                  /\ \A t \in ChecksMade \ {dlastcheck} : ~PresentAt(t)
             ELSE /\ dresult = FALSE
                  /\ retry_seconds <= 0
                  /\ \A t \in ChecksMade : ~PresentAt(t)

\* found at the third check: the file appeared after the second
C30_Witness ==
    /\ dpc = "done"
    /\ dresult = TRUE
    /\ dappear = 3
    /\ dlastcheck = 4
    /\ dnow = 4

\* C31: when _discover_file_till_timeout returned False, _post_img_clone
\* has returned False and neither _set_rw_permissions_for_all nor a call of
\* _resize_vol has been made
C31_NotFoundIsTerminal ==
    ifail = "discover" =>
        /\ PostReturned
        /\ ~icloned
        /\ Calls("discover_file_till_timeout") # {}
        /\ \A name \in PostCalls \ {"discover_file_till_timeout"} : Calls(name) = {}
        /\ Last(icalls) = "discover_file_till_timeout"
        /\ ipc = "done" => iret = [provider_location |-> NoShare, cloned |-> FALSE]

\* clone_image returned after a clone from the cache whose file was not
\* discovered
C31_Witness ==
    /\ ipc = "done"
    /\ ifail = "discover"
    /\ Calls("do_clone_rel_img_cache") # {}
    /\ ~iret.cloned

\* a pass is under way: started and not yet at its finally clause
PassRunning == \E c \in Timers : cpc[c] # "off"

\* C32: _spawn_clean_cache_job can run to its end in every state, also
\* while a pass is under way or waits for the lock of a file: it then
\* returns having found the flag set; and when it starts a pass it returns
\* before the pass has looked at its first share
C32_RefreshNeverWaitsForPass ==
    /\ ENABLED spawn_clean_cache_job
    /\ PassRunning => ENABLED (spawn_clean_cache_job /\ ignored' /\ cpc' = cpc)
    /\ ~PassRunning =>
          ENABLED (/\ spawn_clean_cache_job
                   /\ cleaning'
                   /\ \E c \in Timers : cpc'[c] = "run" /\ cidx'[c] = 1
                   /\ files' = files)

\* a refresh has returned during a pass that waits for the lock of a cache
\* file a worker is cloning from
C32_Witness ==
    \E c \in Timers, w \in Workers :
        /\ cpc[c] = "del"
        /\ wpc[w] = "cloning"
        /\ lock[clist[c][1][1]] = <<"w", w>>
        /\ ignored
        /\ cleaning

\* the shares of the pairs of a lookup result
ResultShares(r) == {r[k][1] : k \in 1..Len(r)}

\* C33: _find_image_in_cache returns one pair (share, img-cache-<id>) for
\* each mounted share that holds the cache file of the image and no other
\* pair, in the order of the mounted shares; its steps take no lock and
\* change no file, flag or lock
C33_LookupExactAndReadOnly ==
    /\ [](lpc = "done" =>
            /\ \A k \in 1..Len(lresult) : lresult[k][2] = cache_file_name(limage)
            /\ ResultShares(lresult) =
                  {sh \in Shares : <<sh, cache_file_name(limage)>> \in files}
            /\ \A j, k \in 1..Len(lresult) : j < k => lresult[j][1] < lresult[k][1])
    /\ [][/\ files' = files
          /\ lock' = lock
          /\ cleaning' = cleaning
          /\ \A n \in DOMAIN lock : lock[n] = Free]_vars

\* the cache file is on the second share only
C33_Witness ==
    /\ lpc = "done"
    /\ Len(lresult) = 1
    /\ lresult[1] = <<2, cache_file_name(limage)>>
    /\ <<1, cache_file_name(limage)>> \notin files
    /\ \E f \in files : f[2] # cache_file_name(limage)

C35_CacheFileExistsAtClone ==
    \A w \in Workers :
        (wpc[w] = "cloning" /\ wop[w].kind = "fromcache") =>
            path_exists(wop[w].share, op_src(w))

\* C36: _clone_volume returns normally only after clone-list-status has
\* answered 'completed' for the clone, whatever clone-start returned
C36_SuccessOnlyAfterCompleted ==
    (k7pc = "done" /\ k7out = "returned") =>
        /\ k7log # <<>>
        /\ Last(k7log).kind = "completed"

\* C37: clone_image returns cloned = False after a clone from the cache
\* failed, by an exception or by _post_img_clone returning False, only when
\* no share of the lookup result is left untried
C37_TriesEveryCachedShare ==
    (/\ ipc = "done"
     /\ ~iret.cloned
     /\ Calls("do_clone_rel_img_cache") # {}
     /\ ifail \in {"clone", "discover", "perms", "resize"}) => ihits = <<>>

====
